---- MODULE Spec2Model ----
(***************************************************************************)
(* A model of the motion-estimation kernel of miloknowles/vehicle:         *)
(*   - bm::vio::ImuManager (src/src/auv/vio/imu_manager.cpp): a bounded    *)
(*     drop-oldest queue of IMU measurements and windowed preintegration;  *)
(*   - the Levenberg-Marquardt pose optimizer exercised by                 *)
(*     src/test/vo/optimization_test.cpp (its implementation is not part   *)
(*     of the sources at hand and is modelled from the specification).     *)
(*                                                                         *)
(* Time.  timestamp_t counts integer ticks; seconds_t is a real number of  *)
(* seconds.  A seconds_t value is represented here by an integer number of *)
(* quanta, QuantaPerSec quanta to the second, so that times between two    *)
(* ticks can be requested.                                                 *)
(***************************************************************************)
EXTENDS Integers, Sequences, FiniteSets, TLC

\* ------------------------------------------------------------- bounds
\* Largest timestamp (in ticks) the sensor produces.
MaxTick == 3
\* Params::max_queue_size.
MaxQueueSize == 3
\* Params::allowed_misalignment_sec, in quanta.
AllowedMisalignment == 2

\* ------------------------------------------------------------- time
\* Ticks of timestamp_t per second (the repository uses nanoseconds; scaled).
TicksPerSec == 2
\* Resolution of the representation of seconds_t: quanta per tick.
QuantaPerTick == 2
QuantaPerSec == QuantaPerTick * TicksPerSec

\* core/timestamp.hpp ConvertToSeconds: a tick count as seconds (in quanta).
ConvertToSeconds(t) == t * QuantaPerTick

\* The usual arithmetic conversion of `timestamp < time` (DiscardBefore): the
\* tick count itself read as a number of seconds (in quanta).
TicksAsSeconds(t) == t * QuantaPerSec

\* Sentinels of seconds_t: "from the beginning" and "until the end".
kMinSeconds == 0
kMaxSeconds == (MaxTick + 2) * QuantaPerSec

fabs(x) == IF x < 0 THEN 0 - x ELSE x

\* ------------------------------------------------------------- values
\* A measurement is identified by its timestamp: its readings (a, w) are not
\* modelled apart, and an integration step records the measurement whose
\* readings it used.
Ticks == 1..MaxTick
ImuMeasurement == [timestamp : Ticks]
\* Gyro/accelerometer bias estimates, abstracted to an identifier.
ImuBias == {"b0", "b1"}
\* Concrete times a caller may ask for, and all arguments including sentinels.
ConcreteTimes == 1..(ConvertToSeconds(MaxTick) + 1)
TimeArgs == {kMinSeconds} \cup ConcreteTimes \cup {kMaxSeconds}

\* gtsam PreintegratedCombinedMeasurements, as the bias it is referenced to and
\* the list of (measurement, dt) steps integrated since the last reset.
PimC == [bias |-> "b0", steps |-> <<>>]
integrateMeasurement(pim, imu, dt) ==
    [pim EXCEPT !.steps = Append(@, [imu |-> imu, dt |-> dt])]
resetIntegration(pim) == [pim EXCEPT !.steps = <<>>]
resetIntegrationAndSetBias(pim, bias) == [bias |-> bias, steps |-> <<>>]

PimResult(valid, from_time, to_time, pim) ==
    [valid |-> valid, from_time |-> from_time, to_time |-> to_time, pim |-> pim]

\* ------------------------------------------------------------- queue
\* ThreadsafeQueue<ImuMeasurement>(max_queue_size, drop_oldest_if_full).
max_queue_size == MaxQueueSize
\* A queue that refuses a measurement when it is full.
Mut_drop_oldest_if_full == FALSE
drop_oldest_if_full == TRUE

QueueEmpty(q) == q = <<>>
QueuePush(q, item) ==
    LET q1 == IF Len(q) >= max_queue_size /\ drop_oldest_if_full /\ q # <<>>
              THEN Tail(q) ELSE q
    IN IF Len(q1) < max_queue_size THEN Append(q1, item) ELSE q1

\* ------------------------------------------------------------- state
VARIABLES
    queue_,     \* ImuManager::queue_: the buffered measurements, oldest first
    pim_,       \* ImuManager::pim_: the preintegration accumulator
    clock,      \* timestamp of the last measurement the sensor delivered
    crashed,    \* the process died on an access to an empty queue
    last,       \* the last call: its arguments, what it did and what it returned
    lm,         \* state of one OptimizePoseLevenbergMarquardtP call
    est         \* the estimation thread inside Preintegrate, when it runs
                \* concurrently with the sensor thread: its position and locals

imu_vars == <<queue_, pim_, clock, crashed, last, est>>
vars == <<queue_, pim_, clock, crashed, last, lm, est>>

NoSample == [timestamp |-> 0]
NoResult == PimResult(FALSE, kMinSeconds, kMaxSeconds, PimC)
\* The record kept of a call; fields that do not apply keep these values.
NoCall ==
    [op |-> "none", from_time |-> kMinSeconds, to_time |-> kMaxSeconds,
     sample |-> NoSample, pre_queue |-> <<>>, returned |-> TRUE,
     result |-> NoResult, path |-> "none", empty_access |-> FALSE,
     anchor |-> NoSample, latest |-> NoSample, start_step |-> FALSE,
     repeats_valid |-> FALSE]

\* ------------------------------------------------------------- Preintegrate
\* Lines 48-51: after the first Pop (imu), pop while the front is <= from_time.
\* The loop does not test Empty(): empty_access reports that it reached
\* PeekFront() on an empty queue.
RECURSIVE SeekAnchor(_, _, _)
SeekAnchor(q, imu, from_time) ==
    IF QueueEmpty(q)
    THEN [queue |-> q, imu |-> imu, empty_access |-> TRUE]
    ELSE IF ConvertToSeconds(Head(q).timestamp) <= from_time
         THEN SeekAnchor(Tail(q), Head(q), from_time)
         ELSE [queue |-> q, imu |-> imu, empty_access |-> FALSE]

\* Lines 68-75: pop and integrate every measurement strictly before to_time.
RECURSIVE IntegrateLoop(_, _, _, _, _)
IntegrateLoop(q, imu, last_imu_time_sec, pim, to_time) ==
    IF ~QueueEmpty(q) /\ ConvertToSeconds(Head(q).timestamp) < to_time
    THEN LET nxt == Head(q)
             dt == ConvertToSeconds(nxt.timestamp) - last_imu_time_sec
         IN IntegrateLoop(Tail(q), nxt, ConvertToSeconds(nxt.timestamp),
                          IF dt > 0 THEN integrateMeasurement(pim, nxt, dt) ELSE pim,
                          to_time)
    ELSE [queue |-> q, imu |-> imu, pim |-> pim]

\* A call on an empty queue that claims a valid, empty integration.
Mut_EmptyQueueValid == PimResult(TRUE, kMinSeconds, kMaxSeconds, PimC)
\* A call on an empty queue that fails with a span of its own.
Mut_EmptyQueueSpan == PimResult(FALSE, kMinSeconds, kMinSeconds, PimC)
\* Line 44: the result of a call on an empty queue.
EmptyQueueResult == PimResult(FALSE, kMinSeconds, kMaxSeconds, PimC)
\* Line 58 and line 83: the result of a misaligned call.
MisalignedResult == PimResult(FALSE, kMinSeconds, kMaxSeconds, PimC)
\* Line 56 and line 80: the distance to a concrete bound, 0 for a sentinel.
OffsetFromSec(earliest_imu_sec, from_time) ==
    IF from_time # kMinSeconds THEN fabs(earliest_imu_sec - from_time) ELSE 0
OffsetToSec(latest_imu_sec, to_time) ==
    IF to_time # kMaxSeconds THEN fabs(latest_imu_sec - to_time) ELSE 0
\* Line 82 and line 92: the accumulator as the call leaves it once it has
\* integrated.
ResetOnFailure(pim) == resetIntegration(pim)
\* The successful return without line 92.
Mut_ResetOnSuccess(pim) == pim
ResetOnSuccess(pim) == resetIntegration(pim)

\* Lines 53-94: the call from the anchor `imu` on, with q what is left of the
\* queue. What it returns, and the queue and the accumulator it leaves.
FromAnchor(q, imu, pim, from_time, to_time) ==
    LET earliest_imu_sec == ConvertToSeconds(imu.timestamp)
        offset_from_sec == OffsetFromSec(earliest_imu_sec, from_time)
    IN
    IF offset_from_sec > AllowedMisalignment
    THEN [queue |-> q, pim |-> pim, result |-> MisalignedResult,
          path |-> "start_misaligned", anchor |-> imu, latest |-> imu,
          start_step |-> FALSE]
    ELSE
    LET pim1 == IF offset_from_sec > 0
                THEN integrateMeasurement(pim, imu, offset_from_sec) ELSE pim
        lp == IntegrateLoop(q, imu, earliest_imu_sec, pim1, to_time)
        latest_imu_sec == ConvertToSeconds(lp.imu.timestamp)
        offset_to_sec == OffsetToSec(latest_imu_sec, to_time)
    IN
    IF offset_to_sec > AllowedMisalignment
    THEN [queue |-> lp.queue, pim |-> ResetOnFailure(lp.pim),
          result |-> MisalignedResult,
          path |-> "end_misaligned", anchor |-> imu, latest |-> lp.imu,
          start_step |-> offset_from_sec > 0]
    ELSE
    LET pim2 == IF offset_to_sec > 0
                THEN integrateMeasurement(lp.pim, lp.imu, offset_to_sec) ELSE lp.pim
    IN [queue |-> lp.queue, pim |-> ResetOnSuccess(pim2),
        result |-> PimResult(TRUE, earliest_imu_sec, latest_imu_sec, pim2),
        path |-> "success", anchor |-> imu, latest |-> lp.imu,
        start_step |-> offset_from_sec > 0]

\* The call returns what FromAnchor computed.
Returns(call, r, empty_access) ==
    /\ queue_' = r.queue
    /\ pim_' = r.pim
    /\ crashed' = FALSE
    /\ last' = [call EXCEPT !.result = r.result, !.path = r.path,
                            !.empty_access = empty_access, !.anchor = r.anchor,
                            !.latest = r.latest, !.start_step = r.start_step]

\* History: the call about to be made repeats, with the same arguments, the
\* call just before it, which returned a valid result.
RepeatsValid(from_time, to_time) ==
    /\ last.op = "Preintegrate"
    /\ last.returned
    /\ last.result.valid
    /\ last.from_time = from_time
    /\ last.to_time = to_time

\* ImuManager::Preintegrate, lines 40-95.
Preintegrate(from_time, to_time) ==
    LET call == [NoCall EXCEPT !.op = "Preintegrate", !.from_time = from_time,
                               !.to_time = to_time, !.pre_queue = queue_,
                               !.repeats_valid = RepeatsValid(from_time, to_time)]
    IN
    /\ ~crashed
    /\ IF QueueEmpty(queue_)
       THEN /\ last' = [call EXCEPT !.result = EmptyQueueResult, !.path = "empty"]
            /\ UNCHANGED <<queue_, pim_, crashed>>
       ELSE LET s == SeekAnchor(Tail(queue_), Head(queue_), from_time) IN
            IF ~s.empty_access
            THEN Returns(call, FromAnchor(s.queue, s.imu, pim_, from_time, to_time), FALSE)
            ELSE \* PeekFront() on an empty queue is undefined: the process
                 \* dies, or the read yields some measurement. One that is
                 \* > from_time ends the loop with the anchor found so far; one
                 \* that is <= from_time makes Pop() return it (or another)
                 \* as the anchor. The queue stays empty.
                 \/ /\ crashed' = TRUE
                    /\ queue_' = s.queue
                    /\ last' = [call EXCEPT !.returned = FALSE, !.path = "fault",
                                            !.empty_access = TRUE]
                    /\ UNCHANGED pim_
                 \/ \E g \in {s.imu} \cup ImuMeasurement :
                        Returns(call, FromAnchor(s.queue, g, pim_, from_time, to_time), TRUE)
    /\ UNCHANGED <<clock, lm, est>>

\* ------------------------------------------------------------- other calls
\* ImuManager::Push, lines 33-37. The sensor delivers measurements in
\* non-decreasing timestamp order (DataProvider plays data chronologically).
Push(imu) ==
    /\ ~crashed
    /\ imu.timestamp >= clock
    /\ queue_' = QueuePush(queue_, imu)
    /\ clock' = imu.timestamp
    /\ last' = [NoCall EXCEPT !.op = "Push", !.sample = imu, !.pre_queue = queue_]
    /\ UNCHANGED <<pim_, crashed, lm, est>>

\* ImuManager::ResetAndUpdateBias, lines 98-101.
ResetAndUpdateBias(bias) ==
    /\ ~crashed
    /\ pim_' = resetIntegrationAndSetBias(pim_, bias)
    /\ last' = [NoCall EXCEPT !.op = "ResetAndUpdateBias", !.pre_queue = queue_]
    /\ UNCHANGED <<queue_, clock, crashed, lm, est>>

\* Lines 106-108: pop while the front's tick count, compared as it stands with
\* `time` in seconds, is smaller.
RECURSIVE DiscardLoop(_, _)
DiscardLoop(q, time) ==
    IF ~QueueEmpty(q) /\ TicksAsSeconds(Head(q).timestamp) < time
    THEN DiscardLoop(Tail(q), time)
    ELSE q

\* ImuManager::DiscardBefore, lines 104-109.
DiscardBefore(time) ==
    /\ ~crashed
    /\ queue_' = DiscardLoop(queue_, time)
    /\ last' = [NoCall EXCEPT !.op = "DiscardBefore", !.from_time = time,
                              !.pre_queue = queue_]
    /\ UNCHANGED <<pim_, clock, crashed, lm, est>>

\* ------------------------------------------------------------- two threads
\* The sensor thread calls Push while the estimation thread is inside
\* Preintegrate. Each queue operation (Empty, PeekFront, Pop, Push) is atomic;
\* the estimation thread's own computation between two of them touches nothing
\* shared and is taken with the queue operation before it.
EstIdle ==
    [pc |-> "idle", from_time |-> kMinSeconds, to_time |-> kMaxSeconds,
     imu |-> NoSample, peeked |-> NoSample, earliest_imu_sec |-> 0,
     last_imu_time_sec |-> 0, result |-> NoResult]

\* The call returns `result`.
EstReturns(result) == est' = [EstIdle EXCEPT !.result = result]

\* Lines 77-94: the end alignment check, the end step, the result and the reset.
\* The accumulator it leaves, and the result.
AfterLoop(imu, pim, earliest_imu_sec, to_time) ==
    LET latest_imu_sec == ConvertToSeconds(imu.timestamp)
        offset_to_sec == OffsetToSec(latest_imu_sec, to_time)
    IN IF offset_to_sec > AllowedMisalignment
       THEN [pim |-> ResetOnFailure(pim), result |-> MisalignedResult]
       ELSE LET pim2 == IF offset_to_sec > 0
                        THEN integrateMeasurement(pim, imu, offset_to_sec) ELSE pim
            IN [pim |-> ResetOnSuccess(pim2),
                result |-> PimResult(TRUE, earliest_imu_sec, latest_imu_sec, pim2)]

\* The loop of lines 70-75 is left: lines 77-94.
EstFinish ==
    LET r == AfterLoop(est.imu, pim_, est.earliest_imu_sec, est.to_time)
    IN /\ pim_' = r.pim
       /\ EstReturns(r.result)

\* Sensor thread: ImuManager::Push, lines 33-37.
SensorPush(imu) ==
    /\ ~crashed
    /\ imu.timestamp >= clock
    /\ queue_' = QueuePush(queue_, imu)
    /\ clock' = imu.timestamp
    /\ UNCHANGED <<pim_, crashed, last, lm, est>>

\* Lines 40-45: the call begins with queue_.Empty().
EstBegin(from_time, to_time) ==
    /\ ~crashed
    /\ est.pc = "idle"
    /\ IF QueueEmpty(queue_)
       THEN EstReturns(EmptyQueueResult)
       ELSE est' = [EstIdle EXCEPT !.pc = "pop_first", !.from_time = from_time,
                                   !.to_time = to_time]
    /\ UNCHANGED <<queue_, pim_, clock, crashed, last, lm>>

\* Line 48: imu = queue_.Pop(). Only this thread pops, so the queue is not empty.
EstPopFirst ==
    /\ est.pc = "pop_first"
    /\ est' = [est EXCEPT !.pc = "seek_peek", !.imu = Head(queue_)]
    /\ queue_' = Tail(queue_)
    /\ UNCHANGED <<pim_, clock, crashed, last, lm>>

\* Lines 53-66, once the loop of lines 49-51 is left with the anchor est.imu.
EstAnchored ==
    LET earliest_imu_sec == ConvertToSeconds(est.imu.timestamp)
        offset_from_sec == OffsetFromSec(earliest_imu_sec, est.from_time)
    IN IF offset_from_sec > AllowedMisalignment
       THEN /\ EstReturns(MisalignedResult)
            /\ UNCHANGED pim_
       ELSE /\ pim_' = IF offset_from_sec > 0
                       THEN integrateMeasurement(pim_, est.imu, offset_from_sec)
                       ELSE pim_
            /\ est' = [est EXCEPT !.pc = "loop_empty",
                                  !.earliest_imu_sec = earliest_imu_sec,
                                  !.last_imu_time_sec = earliest_imu_sec]

\* Line 49: queue_.PeekFront() and the comparison with from_time. On an empty
\* queue the read is undefined: the process dies, or it yields some measurement.
EstSeekPeek ==
    /\ est.pc = "seek_peek"
    /\ \/ /\ QueueEmpty(queue_)
          /\ crashed' = TRUE
          /\ est' = [est EXCEPT !.pc = "fault"]
          /\ UNCHANGED pim_
       \/ \E front \in IF QueueEmpty(queue_) THEN ImuMeasurement ELSE {Head(queue_)} :
            /\ crashed' = FALSE
            /\ IF ConvertToSeconds(front.timestamp) <= est.from_time
               THEN /\ est' = [est EXCEPT !.pc = "seek_pop"]
                    /\ UNCHANGED pim_
               ELSE EstAnchored
    /\ UNCHANGED <<queue_, clock, last, lm>>

\* Line 50: imu = queue_.Pop(). On an empty queue the process dies or the
\* call goes on with some measurement; the queue stays empty.
EstSeekPop ==
    /\ est.pc = "seek_pop"
    /\ \/ /\ QueueEmpty(queue_)
          /\ crashed' = TRUE
          /\ est' = [est EXCEPT !.pc = "fault"]
          /\ UNCHANGED queue_
       \/ \E front \in IF QueueEmpty(queue_) THEN ImuMeasurement ELSE {Head(queue_)} :
            /\ crashed' = FALSE
            /\ est' = [est EXCEPT !.pc = "seek_peek", !.imu = front]
            /\ queue_' = IF QueueEmpty(queue_) THEN queue_ ELSE Tail(queue_)
    /\ UNCHANGED <<pim_, clock, last, lm>>

\* Line 70, first operand: !queue_.Empty().
EstLoopEmpty ==
    /\ est.pc = "loop_empty"
    /\ IF QueueEmpty(queue_)
       THEN EstFinish
       ELSE /\ est' = [est EXCEPT !.pc = "loop_peek"]
            /\ UNCHANGED pim_
    /\ UNCHANGED <<queue_, clock, crashed, last, lm>>

\* Line 70, second operand: queue_.PeekFront() and the comparison with to_time.
EstLoopPeek ==
    /\ est.pc = "loop_peek"
    /\ IF ConvertToSeconds(Head(queue_).timestamp) < est.to_time
       THEN /\ est' = [est EXCEPT !.pc = "loop_pop", !.peeked = Head(queue_)]
            /\ UNCHANGED pim_
       ELSE EstFinish
    /\ UNCHANGED <<queue_, clock, crashed, last, lm>>

\* Line 71: imu = queue_.Pop().
EstLoopPop ==
    /\ est.pc = "loop_pop"
    /\ est' = [est EXCEPT !.pc = "integrate", !.imu = Head(queue_)]
    /\ queue_' = Tail(queue_)
    /\ UNCHANGED <<pim_, clock, crashed, last, lm>>

\* Lines 72-74: integrate the measurement just popped.
EstLoopIntegrate ==
    /\ est.pc = "integrate"
    /\ LET dt == ConvertToSeconds(est.imu.timestamp) - est.last_imu_time_sec
       IN pim_' = IF dt > 0 THEN integrateMeasurement(pim_, est.imu, dt) ELSE pim_
    /\ est' = [est EXCEPT !.pc = "loop_empty",
                          !.last_imu_time_sec = ConvertToSeconds(est.imu.timestamp)]
    /\ UNCHANGED <<queue_, clock, crashed, last, lm>>

\* ------------------------------------------------------------- optimizer
\* OptimizePoseLevenbergMarquardtP as the specification describes it. The
\* numerical part is abstracted: the total weighted error is a level in
\* 0..MaxError, the damping factor is lambda0 * LmFactor^lambda for an integer
\* level lambda, a pose is the number of the step that produced it, and the
\* error of a proposed step is any level.
MaxError == 3
\* max_iters of TestLM_01 and TestLM_02.
LmMaxIters == 20
\* min_error and min_error_delta, as levels of error.
LmMinError == 1
LmMinErrorDelta == 2

LmIdle == [phase |-> "idle", iters |-> 0, pose |-> 0, error |-> 0, lambda |-> 0,
           step |-> "none", prev_pose |-> 0, prev_error |-> 0, prev_lambda |-> 0]

\* A step that takes the pose whatever its error (Gauss-Newton's rule).
Mut_LmAccepts(error_new, error) == TRUE
\* A proposed step is accepted when it reduces the total error.
LmAccepts(error_new, error) == error_new < error

\* The call ends after this iteration: the iteration budget is used up, or the
\* error or its decrease fell below the thresholds.
LmConverged(iters, error, prev_error) ==
    \/ iters >= LmMaxIters
    \/ error < LmMinError
    \/ fabs(prev_error - error) < LmMinErrorDelta

\* The call begins with the error of the starting pose.
LmStart(error0) ==
    /\ lm.phase = "idle"
    /\ lm' = [LmIdle EXCEPT !.phase = "running", !.error = error0,
                            !.prev_error = error0]
    /\ UNCHANGED imu_vars

\* One iteration: solve the damped normal equations, evaluate the proposed
\* pose, then accept it and decrease the damping, or reject it and increase
\* the damping.
LmIterate(error_new) ==
    /\ lm.phase = "running"
    /\ LET accepted == LmAccepts(error_new, lm.error)
           iters == lm.iters + 1
           error == IF accepted THEN error_new ELSE lm.error
       IN lm' = [phase |-> IF (accepted /\ LmConverged(iters, error, lm.error))
                              \/ iters >= LmMaxIters
                           THEN "done" ELSE "running",
                 iters |-> iters,
                 pose |-> IF accepted THEN iters ELSE lm.pose,
                 error |-> error,
                 lambda |-> IF accepted THEN lm.lambda - 1 ELSE lm.lambda + 1,
                 step |-> IF accepted THEN "accepted" ELSE "rejected",
                 prev_pose |-> lm.pose, prev_error |-> lm.error,
                 prev_lambda |-> lm.lambda]
    /\ UNCHANGED imu_vars

\* The call returns the pose, the error and the iterations used.
LmReturn ==
    /\ lm.phase = "done"
    /\ lm' = LmIdle
    /\ UNCHANGED imu_vars

\* ------------------------------------------------------------- specification

Init ==
    /\ queue_ = <<>>
    /\ pim_ = PimC
    /\ clock = 1
    /\ crashed = FALSE
    /\ last = NoCall
    /\ lm = LmIdle
    /\ est = EstIdle

Next ==
    \/ \E imu \in ImuMeasurement : Push(imu)
    \/ \E from_time \in TimeArgs, to_time \in TimeArgs : Preintegrate(from_time, to_time)
    \/ \E bias \in ImuBias : ResetAndUpdateBias(bias)
    \/ \E time \in TimeArgs : DiscardBefore(time)

Spec == Init /\ [][Next]_vars

NextLM ==
    \/ \E error0 \in 0..MaxError : LmStart(error0)
    \/ \E error_new \in 0..MaxError : LmIterate(error_new)
    \/ LmReturn

SpecLM == Init /\ [][NextLM]_vars

NextThreads ==
    \/ \E imu \in ImuMeasurement : SensorPush(imu)
    \/ \E from_time \in TimeArgs, to_time \in TimeArgs : EstBegin(from_time, to_time)
    \/ EstPopFirst
    \/ EstSeekPeek
    \/ EstSeekPop
    \/ EstLoopEmpty
    \/ EstLoopPeek
    \/ EstLoopPop
    \/ EstLoopIntegrate

SpecThreads == Init /\ [][NextThreads]_vars

\* ------------------------------------------------------------- claims
\* C1: whenever a Preintegrate call has returned, on whichever path, the
\* accumulator holds no integrated step; as no other call integrates, it holds
\* none in any state, so no increment of one call is visible to the next.
C1_AccumulatorZero ==
    /\ pim_.steps = <<>>
    /\ (last.op = "Preintegrate" /\ last.returned) => pim_ = resetIntegration(pim_)
\* A successful call that integrated at least two steps has returned.
C1_Witness ==
    /\ last.op = "Preintegrate"
    /\ last.path = "success"
    /\ ~last.empty_access
    /\ Len(last.result.pim.steps) >= 2
    /\ pim_.steps = <<>>

\* C2: on a non-empty buffer Preintegrate returns a result and never calls
\* PeekFront or Pop on an empty queue.
C2_NoEmptyQueueAccess ==
    (last.op = "Preintegrate" /\ ~QueueEmpty(last.pre_queue))
        => (last.returned /\ ~last.empty_access)

\* C3: a Preintegrate call on an empty buffer returns an invalid result with
\* the span (kMinSeconds, kMaxSeconds) for every from_time and to_time, and
\* leaves the buffer and the accumulator as they were.
C3_EmptyBufferFails ==
    [][(last'.op = "Preintegrate" /\ QueueEmpty(queue_))
        => /\ last'.returned
           /\ ~last'.result.valid
           /\ last'.result.from_time = kMinSeconds
           /\ last'.result.to_time = kMaxSeconds
           /\ queue_' = queue_
           /\ pim_' = pim_
           /\ crashed' = crashed]_vars
\* A call with concrete bounds found the buffer empty.
C3_Witness ==
    /\ last.op = "Preintegrate"
    /\ last.path = "empty"
    /\ QueueEmpty(last.pre_queue)
    /\ last.from_time \in ConcreteTimes
    /\ last.to_time \in ConcreteTimes
    /\ ~last.result.valid

\* C4 as stated: right after a valid Preintegrate(from_time, to_time), hence
\* with no Push in between, an identical call returns an invalid result.
\* (Stated for windows with concrete bounds from_time < to_time and second
\* calls that access no empty queue; the statement as written covers more.)
C4_SecondCallInvalid ==
    (/\ last.op = "Preintegrate"
     /\ last.repeats_valid
     /\ last.from_time \in ConcreteTimes
     /\ last.to_time \in ConcreteTimes
     /\ last.from_time < last.to_time
     /\ ~last.empty_access)
        => (last.returned /\ ~last.result.valid)
\* C4 as amended: right after a valid Preintegrate(from_time, to_time) that
\* left the buffer empty, an identical call returns an invalid result that
\* claims no time range.
C4_SecondCallInvalidWhenDrained ==
    (/\ last.op = "Preintegrate"
     /\ last.repeats_valid
     /\ QueueEmpty(last.pre_queue))
        => /\ last.returned
           /\ ~last.result.valid
           /\ last.result.from_time = kMinSeconds
           /\ last.result.to_time = kMaxSeconds
\* The second of two identical calls with concrete bounds has returned; the
\* first was valid and left the buffer empty.
C4_Witness ==
    /\ last.op = "Preintegrate"
    /\ last.repeats_valid
    /\ QueueEmpty(last.pre_queue)
    /\ last.from_time \in ConcreteTimes
    /\ last.to_time \in ConcreteTimes
    /\ last.from_time < last.to_time
    /\ last.returned

\* The buffer is chronologically ordered.
Ordered(q) == \A i \in 1..(Len(q) - 1) : q[i].timestamp <= q[i + 1].timestamp
\* from_time and the anchor, to_time and the last consumed measurement, are
\* aligned: the bound is a sentinel or within the allowed misalignment.
AlignedFrom(call) ==
    \/ call.from_time = kMinSeconds
    \/ fabs(ConvertToSeconds(call.anchor.timestamp) - call.from_time) <= AllowedMisalignment
AlignedTo(call) ==
    \/ call.to_time = kMaxSeconds
    \/ fabs(ConvertToSeconds(call.latest.timestamp) - call.to_time) <= AllowedMisalignment

\* C5: on a non-empty ordered buffer Preintegrate returns a result, valid
\* exactly when each bound is a sentinel or within the allowed misalignment of
\* the anchor (from_time) and of the last consumed measurement (to_time).
C5_ValidIffAligned ==
    (last.op = "Preintegrate" /\ ~QueueEmpty(last.pre_queue) /\ Ordered(last.pre_queue))
        => /\ last.returned
           /\ last.result.valid <=> (AlignedFrom(last) /\ AlignedTo(last))

\* C6: after DiscardBefore(t) the buffer is empty or its front's timestamp in
\* seconds is >= t; the measurements removed are exactly the leading ones whose
\* timestamp in seconds is < t, and the others keep their order.
C6_DiscardBefore ==
    last.op = "DiscardBefore" =>
        LET t == last.from_time
            pre == last.pre_queue
        IN /\ QueueEmpty(queue_) \/ ConvertToSeconds(Head(queue_).timestamp) >= t
           /\ \E k \in 0..Len(pre) :
                /\ queue_ = SubSeq(pre, k + 1, Len(pre))
                /\ \A i \in 1..k : ConvertToSeconds(pre[i].timestamp) < t

\* C7: the buffer never holds more than max_queue_size measurements and is
\* chronologically ordered; a Push appends the measurement at the tail, and on
\* a full buffer evicts exactly the oldest one first.
C7_BoundedDropOldest ==
    /\ Len(queue_) <= max_queue_size
    /\ Ordered(queue_)
    /\ last.op = "Push" =>
         queue_ = Append(IF Len(last.pre_queue) >= max_queue_size
                         THEN Tail(last.pre_queue) ELSE last.pre_queue,
                         last.sample)
\* A Push onto a full buffer has evicted an older measurement than the new front.
C7_Witness ==
    /\ last.op = "Push"
    /\ Len(last.pre_queue) = max_queue_size
    /\ Len(queue_) = max_queue_size
    /\ Head(last.pre_queue).timestamp < Head(queue_).timestamp
    /\ queue_[Len(queue_)] = last.sample

\* C10: in a Preintegrate call with a concrete from_time that passes the start
\* alignment check, the start step is integrated if and only if the anchor's
\* timestamp is strictly after from_time. (Stated for calls that access no
\* empty queue and windows with from_time < to_time.)
C10_StartStepIffAnchorAfter ==
    (/\ last.op = "Preintegrate"
     /\ last.from_time \in ConcreteTimes
     /\ last.from_time < last.to_time
     /\ last.path \in {"end_misaligned", "success"}
     /\ ~last.empty_access)
        => (last.start_step <=> ConvertToSeconds(last.anchor.timestamp) > last.from_time)

\* C8: in a Levenberg-Marquardt call the error of the current pose never
\* increases from one iteration to the next; a rejected step leaves the pose
\* and its error as they were and increases the damping, an accepted step
\* lowers the error and decreases the damping; the call makes at most
\* max_iters iterations and has ended once it made that many.
C8_LmNeverIncreasesError ==
    lm.phase # "idle" =>
        /\ lm.error <= lm.prev_error
        /\ lm.step = "rejected" =>
             /\ lm.pose = lm.prev_pose
             /\ lm.error = lm.prev_error
             /\ lm.lambda > lm.prev_lambda
        /\ lm.step = "accepted" =>
             /\ lm.error < lm.prev_error
             /\ lm.lambda < lm.prev_lambda
        /\ lm.iters <= LmMaxIters
        /\ lm.iters = LmMaxIters => lm.phase = "done"
\* A step that would have raised the error was rejected, after an accepted one.
C8_Witness ==
    /\ lm.phase = "running"
    /\ lm.step = "rejected"
    /\ lm.pose > 0
    /\ lm.pose = lm.prev_pose
    /\ lm.lambda > lm.prev_lambda

\* The time a result's increments cover: the sum of the durations of the
\* steps integrated (gtsam's deltaTij).
RECURSIVE SumDt(_)
SumDt(steps) == IF steps = <<>> THEN 0 ELSE Head(steps).dt + SumDt(Tail(steps))

\* C12: in a successful Preintegrate(from_time, to_time) with concrete bounds
\* on an ordered buffer, the durations of the start step, the per-measurement
\* steps and the end step add up to to_time - from_time. (Stated for calls
\* that access no empty queue and windows with from_time < to_time.)
C12_DurationsSumToWindow ==
    (/\ last.op = "Preintegrate"
     /\ last.path = "success"
     /\ last.from_time \in ConcreteTimes
     /\ last.to_time \in ConcreteTimes
     /\ last.from_time < last.to_time
     /\ Ordered(last.pre_queue)
     /\ ~last.empty_access)
        => SumDt(last.result.pim.steps) = last.to_time - last.from_time

\* C11: with Push running concurrently, each measurement the loop of lines
\* 70-75 pops and integrates is the one it just peeked, so its timestamp is
\* strictly less than to_time.
C11_LoopPopsWhatItPeeked ==
    est.pc = "integrate" =>
        /\ est.imu = est.peeked
        /\ ConvertToSeconds(est.imu.timestamp) < est.to_time

====
